---- MODULE Spec2Model ----
(***************************************************************************)
(* mp3s-to-spotify-playlist.py as a state machine.                         *)
(*                                                                         *)
(* The state is what outlives a statement of main(): the two cache files   *)
(* of every playlist name (their text, character by character), the        *)
(* playlists held by the remote service, the locals of the run in progress *)
(* and the position of that run in main().  One action is one step of      *)
(* main(): a remote call with each of its outcomes, the cache read, the    *)
(* cache write, the cache removal.  A sequence of runs is a behaviour:     *)
(* StartRun begins the next invocation of the script once the previous     *)
(* one has returned or died on an uncaught exception.                      *)
(*                                                                         *)
(* Strings are sequences of one-character strings, so that the slice       *)
(* file[:-4], the "\n" that write_list_to_file appends and the line        *)
(* boundaries that read()/splitlines() cut at are all computed.            *)
(***************************************************************************)
EXTENDS Integers, Sequences, FiniteSets, TLC

\* ------------------------------------------------------------ bounds

\* Longest music folder (in files yielded by rglob) a run is started on.
MaxFiles == 2

\* Number of invocations of the script in one behaviour.
MaxRuns == 2

\* ------------------------------------------------------------ constants

\* The slice width of main()'s add loop.
BatchSize == 100

\* The number of trailing characters create_tracks_list drops for the query.
ExtLen == 4

\* ------------------------------------------------------------ text

NL == "\n"
CR == "\r"

\* A value that is no sequence: a missing file, Python's None.
Absent == <<"absent">>
None == <<"None">>

RECURSIVE Flatten(_)
\* The concatenation of a sequence of sequences (by halves: the depth of the
\* recursion stays small for long lists).
Flatten(ss) ==
  IF Len(ss) = 0 THEN <<>>
  ELSE IF Len(ss) = 1 THEN ss[1]
  ELSE LET m == Len(ss) \div 2
       IN  Flatten(SubSeq(ss, 1, m)) \o Flatten(SubSeq(ss, m + 1, Len(ss)))

\* A function over 1 .. n as the tuple it is (TLC then holds its elements
\* instead of the rule that computes them).
Tuple(f) == f \o <<>>

\* 1, 2, ..., n
Indices(n) == Tuple([k \in 1 .. n |-> k])

\* Python's s[:-n] for n > 0: everything but the last n characters, and the
\* empty string when s has no more than n characters.
DropLast(s, n) ==
  IF Len(s) > n THEN SubSeq(s, 1, Len(s) - n) ELSE <<>>

\* Python's l[a:b] for 0 <= a <= b: the slice is cut at the end of l.
Slice(l, a, b) ==
  SubSeq(l, a + 1, IF b < Len(l) THEN b ELSE Len(l))

\* Mutant of Ceil: the quotient, plus one, whatever the remainder.
CeilPlusOne(n, d) == (n \div d) + 1

\* math.ceil(n / d) for naturals n and d > 0.
Ceil(n, d) ==
  IF n % d = 0 THEN n \div d ELSE (n \div d) + 1

RECURSIVE Digits(_)
\* str(n) for a natural n, as a sequence of characters.
Digits(n) ==
  LET d == <<"0", "1", "2", "3", "4", "5", "6", "7", "8", "9">>[(n % 10) + 1]
  IN  IF n < 10 THEN <<d>> ELSE Append(Digits(n \div 10), d)

\* ------------------------------------------------------------ cache files

\* Text-mode reading (open(f).read()): "\r\n" and a lone "\r" arrive as "\n".
read(text) ==
  LET kept == SelectSeq(Indices(Len(text)),
                        LAMBDA k : ~(text[k] = NL /\ k > 1 /\ text[k - 1] = CR))
  IN  Tuple([j \in 1 .. Len(kept) |->
                IF text[kept[j]] = CR THEN NL ELSE text[kept[j]]])

\* The characters str.splitlines() cuts at (of the characters modelled).
LineBoundaries == {NL, CR}

\* str.splitlines(): the lines without their line breaks; "\r\n" is one line
\* break; a final line break opens no further line.
splitlines(s) ==
  LET n == Len(s)
      \* where a line break starts, and where it ends
      B == SelectSeq(Indices(n),
                     LAMBDA k : /\ s[k] \in LineBoundaries
                                /\ ~(s[k] = NL /\ k > 1 /\ s[k - 1] = CR))
      BreakEnd(k) == IF s[k] = CR /\ k < n /\ s[k + 1] = NL THEN k + 1 ELSE k
      StartOf(j) == IF j = 1 THEN 1 ELSE BreakEnd(B[j - 1]) + 1
      count == Len(B) + (IF StartOf(Len(B) + 1) <= n THEN 1 ELSE 0)
  IN  Tuple([j \in 1 .. count |->
                SubSeq(s, StartOf(j), IF j <= Len(B) THEN B[j] - 1 ELSE n)])

\* The text write_list_to_file leaves in the file: every item, then "\n".
write_list_to_file(items) ==
  Flatten(Tuple([k \in 1 .. Len(items) |-> items[k] \o <<NL>>]))

\* One cache file read as read_tracks_from_cache reads it.
read_lines(text) == splitlines(read(text))

playlist_tracks_file(playlist_name) == <<playlist_name, "-tracks_to_add.txt">>

playlist_unmatched_file(playlist_name) == <<playlist_name, "-unmatched_tracks.txt">>

\* ------------------------------------------------------------ scanner

\* The characters of the class [mp3 wav] in the pattern "*.[mp3 wav]*".
music_extensions == {"m", "p", "3", " ", "w", "a", "v"}

\* fnmatch of a name against "*.[mp3 wav]*": a dot followed by a character
\* of the class, anywhere in the name.
Matches(name) ==
  \E k \in 1 .. Len(name) - 1 :
     name[k] = "." /\ name[k + 1] \in music_extensions

\* Path(music_folder).rglob(pattern), as the names it yields, in the order
\* the file system lists the entries.
rglob(entries) == SelectSeq(entries, Matches)

\* Directory entries the runs are started on.
SongA == <<"A", ".", "m", "p", "3">>
SongB == <<"B", ".", "w", "a", "v">>
Notes == <<"n", ".", "t", "x", "t">>
\* A name holding a line break, which POSIX file systems permit.
Weird == <<"x", NL, "y", ".", "m", "p", "3">>

Library == <<SongA, Weird, Notes, SongB>>

\* The folders -f may name: the windows of Library of at most MaxFiles
\* entries (the folder changes between runs), and no -f at all (None).
Folders ==
  LET n == Len(Library)
      W == { w \in (1 .. n) \X (0 .. n) :
               w[2] >= w[1] - 1 /\ w[2] - w[1] + 1 <= MaxFiles }
  IN  { SubSeq(Library, w[1], w[2]) : w \in W }

\* args.music_folder when -f is not given.
NoFolder == <<None>>

MusicFolderArgs == Folders \cup {NoFolder}

\* ------------------------------------------------------------ remote service

\* The id of the authenticated user, as current_user() returns it.
UserId == <<"u">>

\* The id the catalogue holds for a query, when the search finds a track.
CatalogId(q) == <<"i", "d">> \o SelectSeq(q, LAMBDA c : c \notin LineBoundaries)

\* The playlist name given with -p.
PlaylistName == "p"

\* ------------------------------------------------------------ state

VARIABLES
  fs,                \* cache file name -> its text, or Absent
  playlists,         \* the remote playlists: id n is playlists[n]
  pc,                \* where main() stands
  args,              \* [music_folder, playlist_name, dry_run]
  user,              \* what current_user() returned
  tracks_to_add,     \* the matched identifiers
  unmatched_tracks,  \* the unmatched file names
  pending,           \* what the rglob generator has yet to yield
  i,                 \* the add loop's index
  playlist,          \* the id user_playlist_create returned, 0 before
  trace,             \* the calls of this run, in order
  hadCache,          \* both cache files existed when this run started
  runs,              \* invocations so far
  ckpt,              \* the lists last written to the cache files and not removed
  prev,              \* how the previous invocation ended
  createdRuns        \* invocations whose user_playlist_create returned

vars ==
  <<fs, playlists, pc, args, user, tracks_to_add, unmatched_tracks, pending,
    i, playlist, trace, hadCache, runs, ckpt, prev, createdRuns>>

locals == <<user, tracks_to_add, unmatched_tracks, pending, i, playlist>>

history == <<runs, ckpt, prev, createdRuns, hadCache>>

tracks_file == playlist_tracks_file(args.playlist_name)

unmatched_file == playlist_unmatched_file(args.playlist_name)

CacheFiles ==
  {playlist_tracks_file(PlaylistName), playlist_unmatched_file(PlaylistName)}

\* os.path.isfile
isfile(f) == fs[f] # Absent

\* One call of the run: the operation, its text argument (a query, a file
\* name's kind), its list argument (a batch), the playlist id it names or
\* returns, and whether it returned.
Ev(op, text, list, id, ok) ==
  [op |-> op, text |-> text, list |-> list, id |-> id, ok |-> ok]

Terminated == pc \in {"idle", "done", "failed"}

NoCkpt == [written |-> FALSE, tracks |-> <<>>, unmatched |-> <<>>]

NoRun ==
  [outcome |-> "none", op |-> "none", dry |-> FALSE, wrote |-> FALSE,
   k |-> 0, playlist |-> 0, hadCache |-> FALSE]

\* The operation a failed run died in: its last call.
LastOp == IF trace = <<>> THEN "environ" ELSE trace[Len(trace)].op

Summary ==
  [outcome |-> pc,
   op |-> IF pc = "failed" THEN LastOp ELSE "none",
   dry |-> args.dry_run,
   wrote |-> \E n \in 1 .. Len(trace) : trace[n].op = "write",
   k |-> IF pc = "failed" /\ LastOp = "playlist_add_items" THEN i + 1 ELSE 0,
   playlist |-> playlist,
   hadCache |-> hadCache]

\* ------------------------------------------------------------ initial states

\* n identifiers, all different.
Identifiers(n) == Tuple([k \in 1 .. n |-> Digits(k)])

\* Lengths of the matched list a cache file left by an earlier invocation
\* holds: around the multiples of the batch size.
CachedLens ==
  {0, 1, BatchSize - 1, BatchSize, BatchSize + 1, 2 * BatchSize, 2 * BatchSize + 1}

\* Cache files the first invocation may find: none, one of the two, both as
\* write_list_to_file leaves them, both as an editor with "\r\n" line ends
\* and no final line break leaves them.
InitialFiles ==
  LET tf == playlist_tracks_file(PlaylistName)
      uf == playlist_unmatched_file(PlaylistName)
      both(t, u) == (tf :> t) @@ (uf :> u)
  IN  {both(Absent, Absent),
       both(write_list_to_file(<<<<"9">>>>), Absent),
       both(Absent, write_list_to_file(<<SongB>>)),
       both(<<"7", CR, NL, "8">>, <<"B", ".", "w", "a", "v", CR, NL>>)}
      \cup
      { both(write_list_to_file(Identifiers(n)), write_list_to_file(<<SongB>>)) :
          n \in CachedLens }

Init ==
  /\ fs \in InitialFiles
  /\ playlists = <<>>
  /\ pc = "idle"
  /\ args = [music_folder |-> NoFolder, playlist_name |-> PlaylistName,
             dry_run |-> FALSE]
  /\ user = None
  /\ tracks_to_add = <<>>
  /\ unmatched_tracks = <<>>
  /\ pending = <<>>
  /\ i = 0
  /\ playlist = 0
  /\ trace = <<>>
  /\ hadCache = FALSE
  /\ runs = 0
  /\ ckpt = NoCkpt
  /\ prev = NoRun
  /\ createdRuns = 0

\* ------------------------------------------------------------ main()

\* The script is invoked: argparse, the two file names, the locals fresh.
StartRun(folder, dry) ==
  /\ Terminated
  /\ runs < MaxRuns
  /\ runs' = runs + 1
  /\ prev' = IF pc = "idle" THEN NoRun ELSE Summary
  /\ args' = [music_folder |-> folder, playlist_name |-> PlaylistName,
              dry_run |-> dry]
  /\ hadCache' = \A f \in CacheFiles : isfile(f)
  /\ pc' = "environ"
  /\ user' = None
  /\ tracks_to_add' = <<>>
  /\ unmatched_tracks' = <<>>
  /\ pending' = <<>>
  /\ i' = 0
  /\ playlist' = 0
  /\ trace' = <<>>
  /\ UNCHANGED <<fs, playlists, ckpt, createdRuns>>

\* An uncaught exception: the process dies where it stands.
Die == pc' = "failed"

\* load_dotenv() and the three os.environ reads find their variables.
LoadEnv ==
  /\ pc = "environ"
  /\ pc' = "current_user"
  /\ UNCHANGED <<fs, playlists, args, locals, trace, history>>

\* One of the three variables is not set: KeyError.
LoadEnvFail ==
  /\ pc = "environ"
  /\ Die
  /\ UNCHANGED <<fs, playlists, args, locals, trace, history>>

\* user = sp.current_user()
CurrentUserOk ==
  /\ pc = "current_user"
  /\ user' = UserId
  /\ trace' = Append(trace, Ev("current_user", <<>>, <<>>, 0, TRUE))
  /\ pc' = "isfile"
  /\ UNCHANGED <<fs, playlists, args, tracks_to_add, unmatched_tracks, pending,
                 i, playlist, history>>

CurrentUserFail ==
  /\ pc = "current_user"
  /\ trace' = Append(trace, Ev("current_user", <<>>, <<>>, 0, FALSE))
  /\ Die
  /\ UNCHANGED <<fs, playlists, args, locals, history>>

\* ------------------------------------------------------------ create_tracks_list

\* What read_tracks_from_cache returns for the two files' texts.
read_tracks_from_cache(tracks_text, unmatched_text) ==
  <<read_lines(tracks_text), read_lines(unmatched_text)>>

\* Mutant of UseCache: one cache file is enough.
UseCacheEither == isfile(tracks_file) \/ isfile(unmatched_file)

\* Whether create_tracks_list returns the cache.
UseCache == isfile(tracks_file) /\ isfile(unmatched_file)

\* Both cache files are there: return what they hold.
ReadCache ==
  /\ pc = "isfile"
  /\ UseCache
  /\ LET r == read_tracks_from_cache(fs[tracks_file], fs[unmatched_file])
     IN  /\ tracks_to_add' = r[1]
         /\ unmatched_tracks' = r[2]
  /\ trace' = Append(trace, Ev("read_cache", <<>>, <<>>, 0, TRUE))
  /\ pc' = "write"
  /\ UNCHANGED <<fs, playlists, args, user, pending, i, playlist, history>>

\* Otherwise the generator over the folder is made.
StartScan ==
  /\ pc = "isfile"
  /\ ~UseCache
  /\ args.music_folder # NoFolder
  /\ pending' = rglob(args.music_folder)
  /\ trace' = Append(trace, Ev("rglob", <<>>, args.music_folder, 0, TRUE))
  /\ pc' = "scan"
  /\ UNCHANGED <<fs, playlists, args, user, tracks_to_add, unmatched_tracks,
                 i, playlist, history>>

\* Path(None): TypeError.
ScanNoFolder ==
  /\ pc = "isfile"
  /\ ~UseCache
  /\ args.music_folder = NoFolder
  /\ trace' = Append(trace, Ev("rglob", <<>>, <<>>, 0, FALSE))
  /\ Die
  /\ UNCHANGED <<fs, playlists, args, locals, history>>

\* The query for a file name.
Query(file) == DropLast(file, ExtLen)

\* Mutant of Sorted: the unmatched list takes the query, not the file name.
SortedByQuery(file, track_id) ==
  IF track_id \notin {None, <<>>}
  THEN <<Append(tracks_to_add, track_id), unmatched_tracks>>
  ELSE <<tracks_to_add, Append(unmatched_tracks, Query(file))>>

\* What the loop body does with the value search_track returned.
Sorted(file, track_id) ==
  IF track_id \notin {None, <<>>}
  THEN <<Append(tracks_to_add, track_id), unmatched_tracks>>
  ELSE <<tracks_to_add, Append(unmatched_tracks, file)>>

\* One pass of the loop: the generator yields a file, search_track returns
\* track_id for it (None when the result holds no item).
Search(track_id) ==
  /\ pc = "scan"
  /\ pending # <<>>
  /\ LET file == Head(pending)
         r == Sorted(file, track_id)
     IN  /\ tracks_to_add' = r[1]
         /\ unmatched_tracks' = r[2]
         /\ trace' = Append(trace, Ev("search", Query(file), <<track_id>>, 0, TRUE))
  /\ pending' = Tail(pending)
  /\ UNCHANGED <<fs, playlists, pc, args, user, i, playlist, history>>

SearchFound ==
  /\ pc = "scan"
  /\ pending # <<>>
  /\ Search(CatalogId(Query(Head(pending))))

SearchNone ==
  /\ pc = "scan"
  /\ pending # <<>>
  /\ Search(None)

\* sp.search raises.
SearchFail ==
  /\ pc = "scan"
  /\ pending # <<>>
  /\ trace' = Append(trace, Ev("search", Query(Head(pending)), <<>>, 0, FALSE))
  /\ Die
  /\ UNCHANGED <<fs, playlists, args, locals, history>>

\* The generator is exhausted: create_tracks_list returns the two lists.
ScanEnd ==
  /\ pc = "scan"
  /\ pending = <<>>
  /\ pc' = "write"
  /\ UNCHANGED <<fs, playlists, args, locals, trace, history>>

\* ------------------------------------------------------------ main(), continued

\* Mutant of WriteCaches: a dry run writes nothing.
WriteCachesUnlessDry ==
  /\ pc = "write"
  /\ fs' = IF args.dry_run THEN fs
           ELSE [fs EXCEPT ![tracks_file] = write_list_to_file(tracks_to_add),
                           ![unmatched_file] = write_list_to_file(unmatched_tracks)]
  /\ ckpt' = IF args.dry_run THEN ckpt
             ELSE [written |-> TRUE, tracks |-> tracks_to_add,
                   unmatched |-> unmatched_tracks]
  /\ trace' = IF args.dry_run THEN trace
              ELSE trace \o <<Ev("write", tracks_file, tracks_to_add, 0, TRUE),
                              Ev("write", unmatched_file, unmatched_tracks, 0, TRUE)>>
  /\ pc' = "create"
  /\ UNCHANGED <<playlists, args, locals, runs, prev, createdRuns, hadCache>>

\* The two write_list_to_file calls.
WriteCaches ==
  /\ pc = "write"
  /\ fs' = [fs EXCEPT ![tracks_file] = write_list_to_file(tracks_to_add),
                      ![unmatched_file] = write_list_to_file(unmatched_tracks)]
  /\ ckpt' = [written |-> TRUE, tracks |-> tracks_to_add,
              unmatched |-> unmatched_tracks]
  /\ trace' = trace \o <<Ev("write", tracks_file, tracks_to_add, 0, TRUE),
                         Ev("write", unmatched_file, unmatched_tracks, 0, TRUE)>>
  /\ pc' = "create"
  /\ UNCHANGED <<playlists, args, locals, runs, prev, createdRuns, hadCache>>

\* Mutant of user_playlist_create: a playlist of that name is used again.
user_playlist_create_by_name(ps, owner, name) ==
  IF \E n \in 1 .. Len(ps) : ps[n].name = name
  THEN ps
  ELSE Append(ps, [owner |-> owner, name |-> name, items |-> <<>>])

\* The service's side of user_playlist_create: a new, empty playlist, whose
\* id is its place in playlists.
user_playlist_create(ps, owner, name) ==
  Append(ps, [owner |-> owner, name |-> name, items |-> <<>>])

\* The service's side of playlist_add_items: the items go to the end.
playlist_add_items(ps, id, items) ==
  [ps EXCEPT ![id].items = @ \o items]

\* Mutant of CreateOk: the playlist is created in a dry run as well.
CreateOkAnyMode ==
  /\ pc = "create"
  /\ playlists' = Append(playlists, [owner |-> user, name |-> args.playlist_name,
                                     items |-> <<>>])
  /\ playlist' = Len(playlists')
  /\ createdRuns' = createdRuns + 1
  /\ trace' = Append(trace, Ev("user_playlist_create", <<>>, <<>>,
                               Len(playlists'), TRUE))
  /\ pc' = "add"
  /\ UNCHANGED <<fs, args, user, tracks_to_add, unmatched_tracks, pending, i,
                 runs, ckpt, prev, hadCache>>

\* Mutant of CreateOk: no playlist is created when nothing matched.
CreateOkIfMatched ==
  /\ pc = "create"
  /\ ~args.dry_run
  /\ IF tracks_to_add = <<>>
     THEN UNCHANGED <<playlists, playlist, createdRuns, trace>>
     ELSE /\ playlists' = Append(playlists, [owner |-> user,
                                             name |-> args.playlist_name,
                                             items |-> <<>>])
          /\ playlist' = Len(playlists')
          /\ createdRuns' = createdRuns + 1
          /\ trace' = Append(trace, Ev("user_playlist_create", <<>>, <<>>,
                                       Len(playlists'), TRUE))
  /\ pc' = "add"
  /\ UNCHANGED <<fs, args, user, tracks_to_add, unmatched_tracks, pending, i,
                 runs, ckpt, prev, hadCache>>

\* playlist = sp.user_playlist_create(user["id"], playlist_name)
CreateOk ==
  /\ pc = "create"
  /\ ~args.dry_run
  /\ playlists' = user_playlist_create(playlists, user, args.playlist_name)
  /\ playlist' = Len(playlists')
  /\ createdRuns' = createdRuns + 1
  /\ trace' = Append(trace, Ev("user_playlist_create", <<>>, <<>>,
                               Len(playlists'), TRUE))
  /\ pc' = "add"
  /\ UNCHANGED <<fs, args, user, tracks_to_add, unmatched_tracks, pending, i,
                 runs, ckpt, prev, hadCache>>

\* A remote call that raises has changed nothing on the service.
CreateFail ==
  /\ pc = "create"
  /\ ~args.dry_run
  /\ trace' = Append(trace, Ev("user_playlist_create", <<>>, <<>>, 0, FALSE))
  /\ Die
  /\ UNCHANGED <<fs, playlists, args, locals, history>>

\* if not args.dry_run: is false.
SkipCreate ==
  /\ pc = "create"
  /\ args.dry_run
  /\ pc' = "add"
  /\ UNCHANGED <<fs, playlists, args, locals, trace, history>>

\* The range of the add loop.
BatchCount(tracks) == Ceil(Len(tracks), BatchSize)

\* tracks_to_add[i * 100 : i * 100 + 100]
Batch(tracks, k) == Slice(tracks, k * BatchSize, k * BatchSize + BatchSize)

\* One pass of the add loop in a run that mutates.
AddOk ==
  /\ pc = "add"
  /\ i < BatchCount(tracks_to_add)
  /\ ~args.dry_run
  /\ LET tracks_batch == Batch(tracks_to_add, i)
     IN  /\ playlists' = playlist_add_items(playlists, playlist, tracks_batch)
         /\ trace' = Append(trace, Ev("playlist_add_items", <<>>, tracks_batch,
                                      playlist, TRUE))
  /\ i' = i + 1
  /\ UNCHANGED <<fs, pc, args, user, tracks_to_add, unmatched_tracks, pending,
                 playlist, history>>

\* Mutant of AddFail: the cache files are removed when an add call raises.
AddFailCleaning ==
  /\ pc = "add"
  /\ i < Ceil(Len(tracks_to_add), BatchSize)
  /\ ~args.dry_run
  /\ trace' = Append(trace, Ev("playlist_add_items", <<>>, <<>>, playlist, FALSE))
  /\ fs' = [fs EXCEPT ![tracks_file] = Absent, ![unmatched_file] = Absent]
  /\ ckpt' = NoCkpt
  /\ Die
  /\ UNCHANGED <<playlists, args, locals, runs, prev, createdRuns, hadCache>>

AddFail ==
  /\ pc = "add"
  /\ i < BatchCount(tracks_to_add)
  /\ ~args.dry_run
  /\ trace' = Append(trace, Ev("playlist_add_items", <<>>,
                               Batch(tracks_to_add, i), playlist, FALSE))
  /\ Die
  /\ UNCHANGED <<fs, playlists, args, locals, history>>

\* One pass of the add loop in a dry run: the print alone.
DryBatch ==
  /\ pc = "add"
  /\ i < BatchCount(tracks_to_add)
  /\ args.dry_run
  /\ i' = i + 1
  /\ UNCHANGED <<fs, playlists, pc, args, user, tracks_to_add, unmatched_tracks,
                 pending, playlist, trace, history>>

\* The loop is over, the run mutates: both os.remove calls, and main returns.
Cleanup ==
  /\ pc = "add"
  /\ i >= BatchCount(tracks_to_add)
  /\ ~args.dry_run
  /\ fs' = [fs EXCEPT ![tracks_file] = Absent, ![unmatched_file] = Absent]
  /\ ckpt' = NoCkpt
  /\ trace' = trace \o <<Ev("remove", tracks_file, <<>>, 0, TRUE),
                         Ev("remove", unmatched_file, <<>>, 0, TRUE)>>
  /\ pc' = "done"
  /\ UNCHANGED <<playlists, args, locals, runs, prev, createdRuns, hadCache>>

\* Mutant of DryFinish: the dry run removes the cache files too.
DryFinishRemoving ==
  /\ pc = "add"
  /\ i >= Ceil(Len(tracks_to_add), BatchSize)
  /\ args.dry_run
  /\ fs' = [fs EXCEPT ![tracks_file] = Absent, ![unmatched_file] = Absent]
  /\ ckpt' = NoCkpt
  /\ pc' = "done"
  /\ UNCHANGED <<playlists, args, locals, trace, runs, prev, createdRuns, hadCache>>

\* The loop is over in a dry run: main returns.
DryFinish ==
  /\ pc = "add"
  /\ i >= BatchCount(tracks_to_add)
  /\ args.dry_run
  /\ pc' = "done"
  /\ UNCHANGED <<fs, playlists, args, locals, trace, history>>

Next ==
  \/ \E folder \in MusicFolderArgs, dry \in BOOLEAN : StartRun(folder, dry)
  \/ LoadEnv
  \/ LoadEnvFail
  \/ CurrentUserOk
  \/ CurrentUserFail
  \/ ReadCache
  \/ StartScan
  \/ ScanNoFolder
  \/ SearchFound
  \/ SearchNone
  \/ SearchFail
  \/ ScanEnd
  \/ WriteCaches
  \/ CreateOk
  \/ CreateFail
  \/ SkipCreate
  \/ AddOk
  \/ AddFail
  \/ DryBatch
  \/ Cleanup
  \/ DryFinish

Spec == Init /\ [][Next]_vars

\* ------------------------------------------------------------ reading the trace

RemoteOps == {"current_user", "search", "user_playlist_create", "playlist_add_items"}

BuildOps == {"read_cache", "rglob", "search"}

\* The calls of the run with an operation among ops, in call order.
Calls(ops) == SelectSeq(trace, LAMBDA e : e.op \in ops)

\* The calls among ops that returned.
Returned(ops) == SelectSeq(trace, LAMBDA e : e.op \in ops /\ e.ok)

\* Every call among first comes before every call among then.
Precede(first, then) ==
  \A m, n \in 1 .. Len(trace) :
     trace[m].op \in first /\ trace[n].op \in then => m < n

\* The run took the cache path, the scan path.
FromCache == Returned({"read_cache"}) # <<>>

Scanned == Returned({"rglob"}) # <<>>

\* create_tracks_list has returned.
Built == pc \in {"write", "create", "add", "done"} \/ Calls({"write"}) # <<>>

BothFilesExist == \A f \in CacheFiles : isfile(f)

NoFileExists == \A f \in CacheFiles : ~isfile(f)

\* The items each call of a sequence of calls carries.
Lists(calls) == Tuple([n \in 1 .. Len(calls) |-> calls[n].list])

\* The least n with n * 100 >= L.
LeastCover(L) ==
  CHOOSE n \in 0 .. L : n * 100 >= L /\ \A m \in 0 .. n - 1 : m * 100 < L

\* ------------------------------------------------------------ C1

\* C1 (batch law): when a run that mutates has returned, it has made
\* ceil(L / 100) playlist_add_items calls for its L matched identifiers, each
\* call carried between 1 and 100 of them, and the batches in call order,
\* end to end, are the matched list.
BatchLaw ==
  (pc = "done" /\ ~args.dry_run) =>
     LET adds == Calls({"playlist_add_items"})
         L == Len(tracks_to_add)
     IN  /\ Len(adds) = LeastCover(L)
         /\ \A n \in 1 .. Len(adds) :
               /\ adds[n].ok
               /\ Len(adds[n].list) >= 1
               /\ Len(adds[n].list) <= 100
         /\ Flatten(Lists(adds)) = tracks_to_add

\* A run that mutates has returned after adding 200 identifiers: an exact
\* multiple of the batch size, in two calls.
BatchLawWitness ==
  /\ pc = "done"
  /\ ~args.dry_run
  /\ Len(tracks_to_add) = 200
  /\ Len(Calls({"playlist_add_items"})) = 2

\* ------------------------------------------------------------ C2

\* C2 (dry-run guarantee): a run started with --dry-run makes no
\* user_playlist_create and no playlist_add_items call and changes no remote
\* playlist, whether its lists come from a scan or from the cache files; when
\* it has returned, both cache files exist.
DryRunGuarantee ==
  /\ [](args.dry_run =>
          /\ Calls({"user_playlist_create", "playlist_add_items"}) = <<>>
          /\ (pc = "done" => BothFilesExist))
  /\ [][args'.dry_run => playlists' = playlists]_vars

\* A dry run that took its lists from the cache files has returned.
DryRunWitness ==
  /\ pc = "done"
  /\ args.dry_run
  /\ FromCache
  /\ Len(tracks_to_add) > 100

\* ------------------------------------------------------------ C3

\* Every call made so far returned, the playlist is created and every batch
\* is added.
AllSucceeded ==
  /\ \A n \in 1 .. Len(trace) : trace[n].ok
  /\ Len(Returned({"user_playlist_create"})) = 1
  /\ Len(Returned({"playlist_add_items"})) = LeastCover(Len(tracks_to_add))

\* C3 (cleanup guarantee): a step deletes a cache file only in a run that
\* mutates and in which the creation call and every add call have returned;
\* when a run that mutates has returned, both cache files are absent.  So no
\* dry run and no failing run deletes a cache file.
CleanupGuarantee ==
  /\ [](pc = "done" /\ ~args.dry_run => NoFileExists)
  /\ [][(\E f \in CacheFiles : isfile(f) /\ fs'[f] = Absent) =>
          ~args.dry_run /\ AllSucceeded /\ pc' = "done"]_vars

\* A run that mutates found both cache files, added more than one batch and
\* has returned: the files are gone.
CleanupWitness ==
  /\ pc = "done"
  /\ ~args.dry_run
  /\ hadCache
  /\ NoFileExists
  /\ Len(Calls({"playlist_add_items"})) > 1

\* ------------------------------------------------------------ C4

\* The searches of the run that returned, in call order.
Searches == Returned({"search"})

\* The places, among the files searched, where a track was (was not) found.
FoundAt == SelectSeq(Indices(Len(Searches)), LAMBDA k : Searches[k].list[1] # None)

NotFoundAt == SelectSeq(Indices(Len(Searches)), LAMBDA k : Searches[k].list[1] = None)

\* The identifiers the searches found, and the files they found nothing for,
\* in search order.
FoundIds == [j \in 1 .. Len(FoundAt) |-> Searches[FoundAt[j]].list[1]]

NotFoundFiles ==
  [j \in 1 .. Len(NotFoundAt) |-> rglob(args.music_folder)[NotFoundAt[j]]]

\* C4 (partition of the scanned files): on the scan path, the k-th search
\* is for the k-th eligible file, with the name less its last four
\* characters as the query; the matched list is the identifiers found, the
\* unmatched list the whole names of the files nothing was found for, both in
\* scan order; so every file searched is in exactly one list, and when
\* create_tracks_list has returned there was one search per eligible file and
\* len(matched) + len(unmatched) is their number.
ScanPartition ==
  Scanned =>
     LET files == rglob(args.music_folder)
         N == Len(files)
     IN  /\ Len(Searches) = N - Len(pending)
         /\ Len(Calls({"search"})) <= N
         /\ \A k \in 1 .. Len(Searches) :
               Searches[k].text =
                 SubSeq(files[k], 1, IF Len(files[k]) > 4 THEN Len(files[k]) - 4 ELSE 0)
         /\ tracks_to_add = FoundIds
         /\ unmatched_tracks = NotFoundFiles
         /\ Len(tracks_to_add) + Len(unmatched_tracks) = Len(Searches)
         /\ Built =>
               /\ Len(Calls({"search"})) = N
               /\ Len(tracks_to_add) + Len(unmatched_tracks) = N

\* A folder of two eligible files has been scanned: the first found, the
\* second not.
ScanPartitionWitness ==
  /\ Scanned
  /\ Built
  /\ Len(rglob(args.music_folder)) = 2
  /\ Len(tracks_to_add) = 1
  /\ Len(unmatched_tracks) = 1
  /\ Searches[1].list[1] # None

\* ------------------------------------------------------------ C5

\* A list holds the records of a text: no record holds a line break, and the
\* records, each closed by "\n", are the text as text mode delivers it, up to
\* the text's missing final line break.
IsRecordsOf(list, text) ==
  /\ \A k \in 1 .. Len(list) :
        \A c \in 1 .. Len(list[k]) : list[k][c] \notin {NL, CR}
  /\ LET crlf == { k \in 1 .. Len(text) : text[k] = NL /\ k > 1 /\ text[k - 1] = CR }
         kept == SelectSeq(Indices(Len(text)), LAMBDA k : k \notin crlf)
         delivered == [j \in 1 .. Len(kept) |->
                         IF text[kept[j]] = CR THEN NL ELSE text[kept[j]]]
         joined == Flatten(Tuple([k \in 1 .. Len(list) |-> Append(list[k], NL)]))
     IN  \/ joined = delivered
         \/ joined = Append(delivered, NL) /\ delivered # <<>>
                                           /\ delivered[Len(delivered)] # NL

\* C5 (cache bypass and idempotence): create_tracks_list takes the cache
\* path exactly when both cache files existed at the call; it then makes no
\* scanner and no search call and returns the records of the two files, in
\* order, and when the files are those an earlier cache-path run wrote, it
\* returns what that run returned; with a file missing it scans, searches
\* once per eligible file and returns lists made of the search results alone.
CacheBypass ==
  /\ (FromCache \/ Scanned) => (FromCache <=> hadCache)
  /\ FromCache =>
        /\ Calls({"rglob", "search"}) = <<>>
        /\ pc = "write" =>
              /\ IsRecordsOf(tracks_to_add, fs[tracks_file])
              /\ IsRecordsOf(unmatched_tracks, fs[unmatched_file])
              /\ (prev.hadCache /\ prev.wrote) =>
                    /\ tracks_to_add = ckpt.tracks
                    /\ unmatched_tracks = ckpt.unmatched
  /\ (Scanned /\ Built) =>
        /\ ~FromCache
        /\ Len(Searches) = Len(rglob(args.music_folder))
        /\ <<tracks_to_add, unmatched_tracks>> = <<FoundIds, NotFoundFiles>>

\* A run on the cache path, after a run on the cache path that wrote the
\* files again, has its lists.
CacheBypassWitness ==
  /\ pc = "write"
  /\ FromCache
  /\ prev.hadCache
  /\ prev.wrote
  /\ Len(tracks_to_add) > 1
  /\ unmatched_tracks # <<>>

\* ------------------------------------------------------------ C6

\* What every dry run that returned has done and not done, whatever the path:
\* both cache files written with the lists, nothing created, added or removed.
DryRunWritesOnly ==
  /\ Len(Calls({"write"})) = 2
  /\ fs[tracks_file] = write_list_to_file(tracks_to_add)
  /\ fs[unmatched_file] = write_list_to_file(unmatched_tracks)
  /\ Calls({"user_playlist_create", "playlist_add_items", "remove"}) = <<>>

\* C6 as stated: every dry run that returned has scanned, has searched once
\* per eligible file and has written both cache files, skipping creation,
\* addition and deletion.
DryRunAlwaysScans ==
  (pc = "done" /\ args.dry_run) =>
     /\ Scanned
     /\ Len(Searches) = Len(rglob(args.music_folder))
     /\ DryRunWritesOnly

\* C6, amended: a dry run that returned has scanned and searched once per
\* eligible file if a cache file was missing when it started, and has read
\* the cache files without any search if both existed; either way it has
\* written both cache files and has skipped creation, addition and deletion.
DryRunReadOnlyWork ==
  (pc = "done" /\ args.dry_run) =>
     /\ ~hadCache => Scanned /\ Len(Searches) = Len(rglob(args.music_folder))
     /\ hadCache => FromCache /\ Calls({"rglob", "search"}) = <<>>
     /\ DryRunWritesOnly

\* A dry run over two eligible files, with no cache to start from, returned.
DryRunReadOnlyWitness ==
  /\ pc = "done"
  /\ args.dry_run
  /\ ~hadCache
  /\ Len(Searches) = 2
  /\ BothFilesExist

\* ------------------------------------------------------------ C7

\* The batches the add calls that returned carried, end to end.
Added == Flatten(Lists(Returned({"playlist_add_items"})))

\* C7 (a failing remote call is fatal): the call that raised is the last
\* call of its run, and the only one that did not return; the step in which
\* a call raises leaves every cache file and every playlist as they were, and
\* the next step, if any, is a new invocation; no failed run has removed a
\* file; the run's playlist holds the batches of the add calls that returned.
FailureIsFatal ==
  /\ [](/\ \A n \in 1 .. Len(trace) - 1 : trace[n].ok
        /\ (trace # <<>> /\ ~trace[Len(trace)].ok) => pc = "failed"
        /\ pc = "failed" => Calls({"remove"}) = <<>>
        /\ playlist # 0 => playlists[playlist].items = Added)
  /\ [][/\ pc' = "failed" => fs' = fs /\ playlists' = playlists
        /\ pc = "failed" => runs' = runs + 1 /\ trace' = <<>>]_vars

\* The second add call of a run raised: the first batch is in the playlist,
\* both cache files are there.
FailureWitness ==
  /\ pc = "failed"
  /\ LastOp = "playlist_add_items"
  /\ i = 1
  /\ Len(playlists[playlist].items) = 100
  /\ BothFilesExist

\* ------------------------------------------------------------ C8

\* C8 (order of events): current_user comes before the build; the two cache
\* writes come after the build and before any creation or add call, and
\* every run past the write has made them, cached or dry; a run that mutates
\* creates at most one playlist, before its first add call, adds to the id
\* that call returned, and removes the files after its last add call; when
\* it has returned it has created its playlist, the matched list empty or not.
EventOrder ==
  /\ Precede({"current_user"}, BuildOps)
  /\ Precede(BuildOps, {"write"})
  /\ Precede({"write"}, {"user_playlist_create", "playlist_add_items", "remove"})
  /\ Precede({"user_playlist_create"}, {"playlist_add_items"})
  /\ Precede({"playlist_add_items"}, {"remove"})
  /\ Calls(BuildOps) # <<>> => trace[1].op = "current_user" /\ trace[1].ok
  /\ pc \in {"create", "add", "done"} => Len(Calls({"write"})) = 2
  /\ Calls({"user_playlist_create", "playlist_add_items", "remove"}) # <<>> =>
        Len(Calls({"write"})) = 2
  /\ Len(Calls({"user_playlist_create"})) <= 1
  /\ \A n \in 1 .. Len(trace) :
        trace[n].op = "playlist_add_items" =>
           /\ Len(Returned({"user_playlist_create"})) = 1
           /\ trace[n].id = Returned({"user_playlist_create"})[1].id
  /\ (pc = "done" /\ ~args.dry_run) =>
        /\ Len(Returned({"user_playlist_create"})) = 1
        /\ playlists[Returned({"user_playlist_create"})[1].id].name = args.playlist_name
        /\ Len(Calls({"remove"})) = 2

\* A run that mutates returned with nothing matched: it made its playlist
\* all the same, after writing the cache files.
EventOrderWitness ==
  /\ pc = "done"
  /\ ~args.dry_run
  /\ tracks_to_add = <<>>
  /\ Len(Returned({"user_playlist_create"})) = 1
  /\ playlists[playlist].items = <<>>

\* ------------------------------------------------------------ C9

\* C9 (resumption across runs): when an earlier run wrote both cache files
\* and no run has removed them since, the next run to build its lists makes
\* no search call and obtains the two lists that run wrote, record for
\* record, whatever folder it is given; a run that died before the cache
\* write, having found no cache, leaves none, and the next run searches once
\* per eligible file.
Resumption ==
  /\ (pc = "write" /\ ckpt.written) =>
        /\ FromCache
        /\ Calls({"rglob", "search"}) = <<>>
        /\ tracks_to_add = ckpt.tracks
        /\ unmatched_tracks = ckpt.unmatched
  /\ (pc = "failed" /\ Calls({"write"}) = <<>> /\ ~hadCache) => ~BothFilesExist
  /\ (pc = "write" /\ prev.outcome = "failed" /\ ~prev.wrote /\ ~prev.hadCache) =>
        /\ Scanned
        /\ Len(Searches) = Len(rglob(args.music_folder))

\* ------------------------------------------------------------ C10

\* The first n items of a list (all of it when it is shorter).
FirstItems(list, n) == SubSeq(list, 1, IF n < Len(list) THEN n ELSE Len(list))

\* C10 (no playlist is reused): there are as many remote playlists as runs
\* whose creation call returned; a step changes no playlist but the one its
\* run created; the run's playlist holds the first batches of its matched
\* list, one for each add call that returned; and when a run that mutates
\* returns after a run that died in its k-th add call, the service holds two
\* playlists of that name, the earlier with the first k - 1 batches of the
\* matched list and the later with all of it.
NoPlaylistReuse ==
  /\ [](/\ Len(playlists) = createdRuns
        /\ playlist # 0 =>
              /\ playlist = Len(playlists)
              /\ playlists[playlist].items =
                   FirstItems(tracks_to_add, 100 * Len(Returned({"playlist_add_items"})))
        /\ (/\ pc = "done"
            /\ ~args.dry_run
            /\ prev.outcome = "failed"
            /\ prev.op = "playlist_add_items") =>
              /\ playlist = prev.playlist + 1
              /\ playlists[prev.playlist].name = args.playlist_name
              /\ playlists[playlist].name = args.playlist_name
              /\ playlists[prev.playlist].items =
                   FirstItems(tracks_to_add, 100 * (prev.k - 1))
              /\ playlists[playlist].items = tracks_to_add)
  /\ [][\A n \in 1 .. Len(playlists) :
          n # playlist' => playlists'[n] = playlists[n]]_vars

\* A run died in its second add call and the next run returned: two
\* playlists, the first with one batch, the second with the whole list.
NoPlaylistReuseWitness ==
  /\ pc = "done"
  /\ ~args.dry_run
  /\ prev.outcome = "failed"
  /\ prev.op = "playlist_add_items"
  /\ prev.k = 2
  /\ Len(playlists) = 2
  /\ Len(playlists[1].items) = 100
  /\ Len(playlists[2].items) > 100

====
